---------------------------- MODULE Spec2Model ----------------------------
(* Model of src/stringDistance.py: the edit_distance dynamic programme    *)
(* and the BKtree index (construction by _addLeaf, queries by find and    *)
(* xfind).  Items are sequences over a two-letter alphabet; the distance  *)
(* function handed to BKtree is edit_distance.                            *)
EXTENDS Integers, Sequences, FiniteSets, TLC

\* Longest item indexed or queried in the tree.
MaxLen == 2
\* Longest sequence handed to edit_distance on its own.
MaxSeqLen == 3
\* Number of items the input iterator yields at most.
MaxStream == 3
\* Largest query threshold.
MaxThr == 2

Alphabet == {"a", "b"}

SeqsUpTo(k) == UNION {[1..m -> Alphabet] : m \in 0..k}

\* The words the input iterator and the queries draw from: every word of at
\* most two letters and two words of three letters.
Vocabulary ==
    SeqsUpTo(2) \cup {<<"a", "b", "b">>, <<"b", "a", "a">>}

Items == {w \in Vocabulary : Len(w) <= MaxLen}

EDSeqs == SeqsUpTo(MaxSeqLen)

Thresholds == {0 - 1} \cup (0..MaxThr)

Min2(x, y) == IF x <= y THEN x ELSE y

Min3(x, y, z) == Min2(x, Min2(y, z))

ToSet(s) == {s[k] : k \in 1..Len(s)}

-----------------------------------------------------------------------------
(* edit_distance, lines 6-22 *)

\* d = defaultdict(int) with the two border loops run (lines 9-13): a key
\* never written reads as 0.
BaseTable(la, lb) ==
    [p \in (0..la) \X (0..lb) |->
        IF p[2] = 0 /\ p[1] >= 1 THEN p[1]
        ELSE IF p[1] = 0 /\ p[2] >= 1 THEN p[2]
        ELSE 0]

\* Mutant of Cell: the substitution term is forgotten.
CellNoSubst(d, a, b, i, j) ==
    IF a[i] = b[j]
    THEN d[<<i - 1, j - 1>>]
    ELSE Min2(d[<<i - 1, j>>] + 1, d[<<i, j - 1>>] + 1)

\* Mutant of Cell: the substitution term lacks its + 1.
CellFreeSubst(d, a, b, i, j) ==
    IF a[i] = b[j]
    THEN d[<<i - 1, j - 1>>]
    ELSE Min3(d[<<i - 1, j>>] + 1, d[<<i, j - 1>>] + 1, d[<<i - 1, j - 1>>])

\* The value stored in d[i, j] (lines 17-20).
Cell(d, a, b, i, j) ==
    IF a[i] = b[j]
    THEN d[<<i - 1, j - 1>>]
    ELSE Min3(d[<<i - 1, j>>] + 1, d[<<i, j - 1>>] + 1, d[<<i - 1, j - 1>>] + 1)

\* The nested loops of lines 15-20: j outer, i inner.
RECURSIVE FillTable(_, _, _, _, _)
FillTable(d, a, b, i, j) ==
    IF j > Len(b) THEN d
    ELSE IF i > Len(a) THEN FillTable(d, a, b, 1, j + 1)
    ELSE FillTable([d EXCEPT ![<<i, j>>] = Cell(d, a, b, i, j)], a, b, i + 1, j)

RECURSIVE edit_distance(_, _)
edit_distance(a, b) ==
    IF Len(a) < Len(b) THEN edit_distance(b, a)
    ELSE FillTable(BaseTable(Len(a), Len(b)), a, b, 1, 1)[<<Len(a), Len(b)>>]

\* edit_distance on every pair of sequences of the model, tabulated once
\* (@@ makes TLC build the table instead of keeping the expression).
DistTable ==
    [p \in (Items \cup EDSeqs) \X (Items \cup EDSeqs) |-> edit_distance(p[1], p[2])]
    @@ <<>>

\* self.distance (line 69): the caller's distance function, here edit_distance.
distance(x, y) == DistTable[<<x, y>>]

-----------------------------------------------------------------------------
(* The Levenshtein reference: the cheapest of deleting the head of a,      *)
(* inserting the head of b, and substituting one head for the other.       *)
RECURSIVE Lev(_, _)
Lev(a, b) ==
    IF Len(a) = 0 THEN Len(b)
    ELSE IF Len(b) = 0 THEN Len(a)
    ELSE Min3(Lev(Tail(a), b) + 1,
              Lev(a, Tail(b)) + 1,
              Lev(Tail(a), Tail(b)) + (IF Head(a) = Head(b) THEN 0 ELSE 1))

-----------------------------------------------------------------------------
VARIABLES
    pc,         \* where the program is: "start" (in __init__, before the first
                \* next()), "loop" (the for loop of line 81), "done" (built)
    root,       \* self.root
    nodes,      \* self.nodes: item -> sequence of arcs <<child, label>>
    first,      \* history: the first item the iterator yielded, if any
    consumed,   \* history: the set of items the iterator has yielded
    n,          \* history: how many items the iterator has yielded
    op,         \* the last query made: "none", "find" or "xfind"
    qitem,      \* its item
    qthr,       \* its threshold
    res,        \* what it returned
    ed          \* the last edit_distance measurement

vars == <<pc, root, nodes, first, consumed, n, op, qitem, qthr, res, ed>>

tree == <<pc, root, nodes, first, consumed, n>>

query == <<op, qitem, qthr, res>>

-----------------------------------------------------------------------------
(* BKtree._addLeaf, lines 87-97 *)

\* Mutant of MatchingArc: no arc is ever followed.
MatchingArcNever(arcs, dist) == 0

\* Mutant of MatchingArc: an arc is followed when its label is at least dist.
MatchingArcAtLeast(arcs, dist) ==
    IF \E k \in 1..Len(arcs) : dist <= arcs[k][2]
    THEN CHOOSE k \in 1..Len(arcs) :
            /\ dist <= arcs[k][2]
            /\ \A m \in 1..(k - 1) : ~(dist <= arcs[m][2])
    ELSE 0

\* The for/else of lines 90-94: the position of the first arc whose label is
\* dist, or 0 when the loop runs to its else branch.
MatchingArc(arcs, dist) ==
    IF \E k \in 1..Len(arcs) : dist = arcs[k][2]
    THEN CHOOSE k \in 1..Len(arcs) :
            /\ dist = arcs[k][2]
            /\ \A m \in 1..(k - 1) : dist # arcs[m][2]
    ELSE 0

\* Lines 95-96: a new key gets an empty arc list.
Register(nds, item) ==
    IF item \notin DOMAIN nds
    THEN [x \in DOMAIN nds \cup {item} |-> IF x = item THEN <<>> ELSE nds[x]]
    ELSE nds

\* Mutant of AttachArc: parent and child are swapped.
AttachArcSwapped(nds, node, item, dist) ==
    [nds EXCEPT ![item] = Append(@, <<node, dist>>)]

\* Line 97.
AttachArc(nds, node, item, dist) ==
    [nds EXCEPT ![node] = Append(@, <<item, dist>>)]

RECURSIVE addLeaf(_, _, _)
addLeaf(nds, node, item) ==
    LET dist == distance(node, item)
        k == MatchingArc(nds[node], dist)
    IN  IF dist > 0
        THEN IF k # 0
             THEN addLeaf(nds, nds[node][k][1], item)
             ELSE AttachArc(Register(nds, item), node, item, dist)
        ELSE nds

-----------------------------------------------------------------------------
(* BKtree.find / _finder, lines 99-114 *)

\* Mutant of Emit: the node is put in front of the result.
EmitInFront(result, node, dist, threshold) ==
    IF dist <= threshold THEN <<node>> \o result ELSE result

\* Lines 108-109.
Emit(result, node, dist, threshold) ==
    IF dist <= threshold THEN Append(result, node) ELSE result

\* Mutant of InRange: the lower bound is taken strictly.
InRangeStrictLower(dmin, label, dmax) == dmin < label /\ label <= dmax

\* Line 113 (and line 128).
InRange(dmin, label, dmax) == dmin <= label /\ label <= dmax

RECURSIVE finder(_, _, _, _)
RECURSIVE finderArcs(_, _, _, _, _, _, _)
\* The loop of lines 112-114 from arc k on.
finderArcs(arcs, k, dmin, dmax, item, threshold, result) ==
    IF k > Len(arcs) THEN result
    ELSE finderArcs(arcs, k + 1, dmin, dmax, item, threshold,
            IF InRange(dmin, arcs[k][2], dmax)
            THEN finder(arcs[k][1], item, threshold, result)
            ELSE result)

finder(node, item, threshold, result) ==
    LET dist == distance(node, item)
    IN  finderArcs(nodes[node], 1, dist - threshold, dist + threshold,
                   item, threshold, Emit(result, node, dist, threshold))

find(item, threshold) ==
    IF DOMAIN nodes # {}
    THEN [kind |-> "list", items |-> finder(root, item, threshold, <<>>)]
    ELSE [kind |-> "list", items |-> <<>>]

-----------------------------------------------------------------------------
(* BKtree.xfind / _xfinder, lines 116-130 *)

RECURSIVE xfinder(_, _, _)
RECURSIVE xfinderArcs(_, _, _, _, _, _)
\* What the loop of lines 127-130 yields from arc k on.
xfinderArcs(arcs, k, dmin, dmax, item, threshold) ==
    IF k > Len(arcs) THEN <<>>
    ELSE (IF InRange(dmin, arcs[k][2], dmax)
          THEN xfinder(arcs[k][1], item, threshold)
          ELSE <<>>)
         \o xfinderArcs(arcs, k + 1, dmin, dmax, item, threshold)

\* The items the generator yields, in order.
xfinder(node, item, threshold) ==
    LET dist == distance(node, item)
    IN  (IF dist <= threshold THEN <<node>> ELSE <<>>)
        \o xfinderArcs(nodes[node], 1, dist - threshold, dist + threshold,
                       item, threshold)

\* xfind returns a generator when the tree has nodes; otherwise the function
\* falls off its end and returns None.
xfind(item, threshold) ==
    IF DOMAIN nodes # {}
    THEN [kind |-> "generator", items |-> xfinder(root, item, threshold)]
    ELSE [kind |-> "None", items |-> <<>>]

\* Draining a query result: a list or a generator gives its items, None
\* cannot be iterated.
Drain(r) ==
    IF r.kind = "None"
    THEN [outcome |-> "TypeError", items |-> <<>>]
    ELSE [outcome |-> "ok", items |-> r.items]

-----------------------------------------------------------------------------
(* The program *)

NoResult == [kind |-> "none", items |-> <<>>]

\* No measurement made.
Idle ==
    [made |-> FALSE, a |-> <<>>, b |-> <<>>, c |-> <<>>,
     dab |-> 0, dba |-> 0, dbc |-> 0, dac |-> 0]

\* One measurement: edit_distance applied to the pairs of a, b, c.
Measure(a, b, c) ==
    [made |-> TRUE, a |-> a, b |-> b, c |-> c,
     dab |-> DistTable[<<a, b>>], dba |-> DistTable[<<b, a>>],
     dbc |-> DistTable[<<b, c>>], dac |-> DistTable[<<a, c>>]]

Init ==
    /\ pc = "start"
    /\ root = <<>>
    /\ nodes = <<>>
    /\ first = {}
    /\ consumed = {}
    /\ n = 0
    /\ op = "none"
    /\ qitem = <<>>
    /\ qthr = 0
    /\ res = NoResult
    /\ ed = Idle

\* __init__, lines 69-77: the iterator yields a first item.
FirstItem(el) ==
    /\ pc = "start"
    /\ n < MaxStream
    /\ root' = el
    /\ nodes' = [x \in {el} |-> <<>>]
    /\ first' = {el}
    /\ consumed' = {el}
    /\ n' = 1
    /\ pc' = "loop"
    /\ UNCHANGED <<query, ed>>

\* __init__, lines 73-75: the iterator is empty.
EmptyStream ==
    /\ pc = "start"
    /\ root' = <<>>
    /\ pc' = "done"
    /\ UNCHANGED <<nodes, first, consumed, n, query, ed>>

\* One turn of the loop of lines 81-83.
LoopItem(el) ==
    /\ pc = "loop"
    /\ n < MaxStream
    /\ nodes' = IF el \notin DOMAIN nodes THEN addLeaf(nodes, root, el) ELSE nodes
    /\ consumed' = consumed \cup {el}
    /\ n' = n + 1
    /\ UNCHANGED <<pc, root, first, query, ed>>

\* The iterator is exhausted: __init__ returns.
LoopEnd ==
    /\ pc = "loop"
    /\ pc' = "done"
    /\ UNCHANGED <<root, nodes, first, consumed, n, query, ed>>

Find(x, t) ==
    /\ pc = "done"
    /\ op = "none"
    /\ op' = "find"
    /\ qitem' = x
    /\ qthr' = t
    /\ res' = find(x, t)
    /\ UNCHANGED <<tree, ed>>

XFind(x, t) ==
    /\ pc = "done"
    /\ op = "none"
    /\ op' = "xfind"
    /\ qitem' = x
    /\ qthr' = t
    /\ res' = xfind(x, t)
    /\ UNCHANGED <<tree, ed>>

\* The caller is finished with the result of a query; the tree is as it was.
Return ==
    /\ op # "none"
    /\ op' = "none"
    /\ qitem' = <<>>
    /\ qthr' = 0
    /\ res' = NoResult
    /\ UNCHANGED <<tree, ed>>

Next ==
    \/ \E el \in Items : FirstItem(el)
    \/ EmptyStream
    \/ \E el \in Items : LoopItem(el)
    \/ LoopEnd
    \/ \E x \in Items, t \in Thresholds : Find(x, t)
    \/ \E x \in Items, t \in Thresholds : XFind(x, t)
    \/ Return

Spec == Init /\ [][Next]_vars

\* edit_distance on its own: any three sequences are measured.
DoMeasure(a, b, c) ==
    /\ ~ed.made
    /\ ed' = Measure(a, b, c)
    /\ UNCHANGED <<tree, query>>

\* The caller is finished with the measurement.
Forget ==
    /\ ed.made
    /\ ed' = Idle
    /\ UNCHANGED <<tree, query>>

NextED ==
    \/ /\ ~ed.made
       /\ \E a \in EDSeqs, b \in EDSeqs, c \in EDSeqs : DoMeasure(a, b, c)
    \/ Forget

SpecED == Init /\ [][NextED]_vars

-----------------------------------------------------------------------------
(* Reading the tree *)

Arcs(p) == {nodes[p][k] : k \in 1..Len(nodes[p])}

Children(p) == {arc[1] : arc \in Arcs(p)}

\* S and everything reachable from S along arcs.
RECURSIVE Closure(_)
Closure(S) ==
    LET T == S \cup UNION {Children(p) : p \in S \cap DOMAIN nodes}
    IN  IF T = S THEN S ELSE Closure(T)

\* A node and all its descendants.
Subtree(c) == Closure({c})

\* The arcs <<parent, position>> whose child is c.
ArcsInto(c) ==
    {pk \in UNION {{p} \X (1..Len(nodes[p])) : p \in DOMAIN nodes} :
        nodes[pk[1]][pk[2]][1] = c}

\* The Levenshtein reference on every pair of sequences, tabulated once.
LevTable == [p \in EDSeqs \X EDSeqs |-> Lev(p[1], p[2])] @@ <<>>

-----------------------------------------------------------------------------
(* Claims *)

\* C1: for a threshold >= 0 the items find returns are exactly the indexed
\* items within the threshold of the query item: none lost, none extra.
FindIsBruteForce ==
    (op = "find" /\ qthr >= 0) =>
        /\ res.kind = "list"
        /\ ToSet(res.items) = {y \in consumed : distance(qitem, y) <= qthr}

\* C1 witness: a query on a tree of three nodes that returns some of the
\* indexed items and leaves a whole arc of the root unvisited.
FindPrunesWitness ==
    /\ op = "find" /\ qthr >= 0
    /\ Cardinality(consumed) >= 3
    /\ Len(res.items) >= 1
    /\ Len(res.items) < Cardinality(consumed)
    /\ \E arc \in Arcs(root) :
          ~InRange(distance(root, qitem) - qthr, arc[2], distance(root, qitem) + qthr)

\* C2 (as stated): draining xfind(x, t) gives the items of find(x, t), in the
\* same order, on every tree.
XFindSameAsFind ==
    op = "xfind" => Drain(res) = Drain(find(qitem, qthr))

\* C3 (as stated): a query with a threshold < 0 ends in InvalidArgument.
NegativeThresholdRaises ==
    (op \in {"find", "xfind"} /\ qthr < 0) => res.kind = "InvalidArgument"

\* C4 (as stated): the tree built from an empty stream has no nodes, and every
\* query on it with a threshold >= 0 gives an empty result that can be drained.
EmptyTreeQueriesEmpty ==
    (pc = "done" /\ n = 0) =>
        /\ DOMAIN nodes = {}
        /\ (op # "none" /\ qthr >= 0) =>
              Drain(res) = [outcome |-> "ok", items |-> <<>>]

EditDistanceIsLevenshtein ==
    ed.made =>
        /\ ed.dab = LevTable[<<ed.a, ed.b>>]
        /\ (ed.a = <<>> => ed.dab = Len(ed.b))
        /\ (ed.b = <<>> => ed.dab = Len(ed.a))
        /\ (ed.a = ed.b => ed.dab = 0)

\* C6 witness: a shorter, non-empty first sequence (the operands are swapped)
\* at distance at least 2 from the second.
EditDistanceWitness ==
    /\ ed.made
    /\ ed.a # <<>>
    /\ Len(ed.a) < Len(ed.b)
    /\ ed.dab >= 2

\* C7: edit_distance is symmetric, satisfies the triangle inequality and is 0
\* exactly on equal sequences.
EditDistanceIsMetric ==
    ed.made =>
        /\ ed.dab = ed.dba
        /\ ed.dac <= ed.dab + ed.dbc
        /\ (ed.dab = 0 <=> ed.a = ed.b)

\* C7 witness: three different non-empty sequences for which the triangle
\* inequality is tight.
MetricWitness ==
    /\ ed.made
    /\ ed.a # ed.b /\ ed.b # ed.c /\ ed.a # ed.c
    /\ ed.a # <<>> /\ ed.b # <<>> /\ ed.c # <<>>
    /\ ed.dac = ed.dab + ed.dbc

\* C8: the label of every arc is the distance from the parent to the child,
\* and every item of the subtree under the arc is at exactly that distance
\* from the parent.
ArcLabelsExact ==
    \A p \in DOMAIN nodes :
        \A arc \in Arcs(p) :
            /\ arc[2] = distance(p, arc[1])
            /\ \A y \in Subtree(arc[1]) : distance(p, y) = arc[2]

\* C8 witness: during construction, an arc with two items in its subtree.
ArcLabelsWitness ==
    /\ pc = "loop"
    /\ \E p \in DOMAIN nodes : \E arc \in Arcs(p) :
          Cardinality(Subtree(arc[1])) >= 2

\* C9: no node has two arcs with the same label, and every label is > 0.
DistinctPositiveLabels ==
    \A p \in DOMAIN nodes :
        \A k1 \in 1..Len(nodes[p]), k2 \in 1..Len(nodes[p]) :
            /\ nodes[p][k1][2] > 0
            /\ (nodes[p][k1][2] = nodes[p][k2][2] => k1 = k2)

\* C9 witness: during construction, an item was routed into the child of an
\* arc of the root: it is at the arc's distance from the root, below the child.
RoutedWitness ==
    /\ pc = "loop"
    /\ \E arc \in Arcs(root) : \E y \in Children(arc[1]) :
          distance(root, y) = arc[2]

\* The node mapping is a rooted tree over the items consumed.
RootedTree ==
    /\ DOMAIN nodes = consumed
    /\ first # {} =>
          /\ first = {root}
          /\ root \in DOMAIN nodes
          /\ ArcsInto(root) = {}
          /\ \A c \in DOMAIN nodes \ {root} : Cardinality(ArcsInto(c)) = 1
          /\ Closure({root}) = DOMAIN nodes

\* C10: at every point of construction the node mapping is a rooted tree whose
\* keys are the items consumed, with the first item as root, and consuming an
\* item that is already a key changes nothing in the mapping.
TreeOfConsumedItems ==
    /\ []RootedTree
    /\ [][(pc = "loop" /\ n' = n + 1 /\ consumed' = consumed) => nodes' = nodes]_vars

\* C10 witness: during construction, two keys and an item consumed twice.
DuplicateConsumedWitness ==
    /\ pc = "loop"
    /\ Cardinality(DOMAIN nodes) >= 2
    /\ n > Cardinality(consumed)

=============================================================================
